---- MODULE Spec2Model ----
(***************************************************************************)
(* Red-Black tree engine of src/app.py (class RedBlackTree) and the       *)
(* validity checker RedBlackTreeApp.check_rb_properties.                  *)
(*                                                                         *)
(* Node objects are numbered: 0 is the sentinel self.nil, 1..MaxNodes are *)
(* RedBlackTreeNode objects.  Python's None is the value None below.      *)
(* An AttributeError raised by following a None link aborts the running   *)
(* operation; the heap keeps what had been written up to that point and   *)
(* err records the abort.                                                  *)
(***************************************************************************)
EXTENDS Integers, Sequences, FiniteSets, TLC

\* ---------------------------------------------------------------- bounds
MaxKey == 3
MaxLive == 3
MaxFullKey == 4
MaxInsKey == 5
MaxNodes == 7
MaxSteps == 1
MaxEngineKey == 2
MaxBuildKey == 7
MaxGenKey == 4
MaxCount == 3
MaxCheckNodes == 4
MaxObjects == 5

Keys == 1..MaxKey
FullKeys == 1..MaxFullKey
InsKeys == 1..MaxInsKey
EngineKeys == 1..MaxEngineKey
BuildKeys == 1..MaxBuildKey
GenKeys == 1..MaxGenKey
NIL == 0
None == -1
NodeIds == 0..MaxNodes
RealIds == 1..MaxNodes

VARIABLES value, color, left, right, parent, root, steps, pending_nodes,
          color_only, err, keyset, color_only_used,
          values, sorted_values, generating

vars == <<value, color, left, right, parent, root, steps, pending_nodes,
          color_only, err, keyset, color_only_used,
          values, sorted_values, generating>>

\* The locals of the coroutine generate_balanced_tree: the sample drawn, the
\* part of sorted_values its loop has still to visit, and whether it is running.
coroutine == <<values, sorted_values, generating>>

\* The RedBlackTree object and the node objects it can reach, as one record.
Heap ==
  [value |-> value, color |-> color, left |-> left, right |-> right,
   parent |-> parent, root |-> root, steps |-> steps,
   pending_nodes |-> pending_nodes, color_only |-> color_only, err |-> err]

\* RedBlackTreeNode.__init__ for an object that does not exist (yet).
NoValue == 0

\* RedBlackTree.__init__: the sentinel is black, has no key and no links.
EmptyHeap ==
  [value |-> [n \in NodeIds |-> NoValue],
   color |-> [n \in NodeIds |-> IF n = NIL THEN "black" ELSE "red"],
   left |-> [n \in NodeIds |-> None],
   right |-> [n \in NodeIds |-> None],
   parent |-> [n \in NodeIds |-> None],
   root |-> NIL, steps |-> <<>>, pending_nodes |-> <<>>,
   color_only |-> FALSE, err |-> FALSE]

\* An AttributeError leaves the operation.
Abort(h) == [h EXCEPT !.err = TRUE]

\* self.steps.append(...)
Log(h, m, v) == [h EXCEPT !.steps = Append(@, [msg |-> m, v |-> v])]

\* ------------------------------------------------------- object lifetime
SeqRange(s) == {s[i] : i \in 1..Len(s)}

Succs(h, n) == {h.left[n], h.right[n], h.parent[n]} \ {None}

RECURSIVE Closure(_, _)
Closure(h, S) ==
  LET T == S \cup UNION {Succs(h, n) : n \in S}
  IN IF T = S THEN S ELSE Closure(h, T)

\* Objects Python keeps alive: reachable from the tree object's references.
Live(h) == Closure(h, ({NIL, h.root} \cup SeqRange(h.pending_nodes)) \ {None})

\* Objects no reference reaches are gone.
Collect(h) ==
  LET L == Live(h)
  IN [h EXCEPT
        !.value = [n \in NodeIds |-> IF n \in L THEN h.value[n] ELSE NoValue],
        !.color = [n \in NodeIds |-> IF n \in L THEN h.color[n] ELSE "red"],
        !.left = [n \in NodeIds |-> IF n \in L THEN h.left[n] ELSE None],
        !.right = [n \in NodeIds |-> IF n \in L THEN h.right[n] ELSE None],
        !.parent = [n \in NodeIds |-> IF n \in L THEN h.parent[n] ELSE None]]

FreeIds(h) == NodeIds \ Live(h)

\* The identity of a newly constructed node: any object that does not exist.
NewId(h, v) ==
  IF v \in FreeIds(h) THEN v
  ELSE CHOOSE n \in FreeIds(h) : \A m \in FreeIds(h) : n <= m

\* ------------------------------------------------------------- searching
Crash == -2

RECURSIVE search_from(_, _, _)
search_from(h, curr, v) ==
  IF curr = NIL THEN None
  ELSE IF curr = None THEN Crash
  ELSE IF h.value[curr] = v THEN curr
  ELSE IF v < h.value[curr] THEN search_from(h, h.left[curr], v)
  ELSE search_from(h, h.right[curr], v)

search_value(h, v) == search_from(h, h.root, v)

\* ------------------------------------------------------------- rotations
_rotate_left(h, node) ==
  IF h.err THEN h
  ELSE IF node = None THEN Abort(h)
  ELSE
    LET right_child == h.right[node] IN
    IF right_child = None THEN Abort(h)
    ELSE
      LET h1 == [h EXCEPT !.right[node] = h.left[right_child]]
          rl == h1.left[right_child]
      IN IF rl = None THEN Abort(h1)
         ELSE
           LET h2 == IF rl # NIL THEN [h1 EXCEPT !.parent[rl] = node] ELSE h1
               h3 == [h2 EXCEPT !.parent[right_child] = h2.parent[node]]
               np == h3.parent[node]
               h4 == IF np = None THEN [h3 EXCEPT !.root = right_child]
                     ELSE IF node = h3.left[np]
                          THEN [h3 EXCEPT !.left[np] = right_child]
                          ELSE [h3 EXCEPT !.right[np] = right_child]
               h5 == [h4 EXCEPT !.left[right_child] = node]
               h6 == [h5 EXCEPT !.parent[node] = right_child]
           IN Log(h6, "Left rotation at node {value}.", h6.value[node])

_rotate_right(h, node) ==
  IF h.err THEN h
  ELSE IF node = None THEN Abort(h)
  ELSE
    LET left_child == h.left[node] IN
    IF left_child = None THEN Abort(h)
    ELSE
      LET h1 == [h EXCEPT !.left[node] = h.right[left_child]]
          lr == h1.right[left_child]
      IN IF lr = None THEN Abort(h1)
         ELSE
           LET h2 == IF lr # NIL THEN [h1 EXCEPT !.parent[lr] = node] ELSE h1
               h3 == [h2 EXCEPT !.parent[left_child] = h2.parent[node]]
               np == h3.parent[node]
               h4 == IF np = None THEN [h3 EXCEPT !.root = left_child]
                     ELSE IF node = h3.right[np]
                          THEN [h3 EXCEPT !.right[np] = left_child]
                          ELSE [h3 EXCEPT !.left[np] = left_child]
               h5 == [h4 EXCEPT !.right[left_child] = node]
               h6 == [h5 EXCEPT !.parent[node] = left_child]
           IN Log(h6, "Right rotation at node {value}.", h6.value[node])

\* ------------------------------------------------------------- insertion
RECURSIVE bst_descend(_, _, _, _)
\* The while loop of _bst_insert: the last real node on the search path.
bst_descend(h, parent_, curr, v) ==
  IF curr = NIL \/ curr = None THEN <<parent_, curr>>
  ELSE IF v < h.value[curr] THEN bst_descend(h, curr, h.left[curr], v)
  ELSE bst_descend(h, curr, h.right[curr], v)

\* _bst_insert with the comparison of line 63 reversed: the new node is linked
\* on the wrong side of its parent.
_bst_insert_wrong_side(h, node) ==
  LET d == bst_descend(h, None, h.root, h.value[node])
      parent_ == d[1]
  IN IF d[2] = None THEN Abort(h)
     ELSE
       LET h1 == [h EXCEPT !.parent[node] = parent_] IN
       IF parent_ = None
       THEN [h1 EXCEPT !.root = node, !.color[node] = "black"]
       ELSE IF h1.value[node] < h1.value[parent_]
            THEN [h1 EXCEPT !.right[parent_] = node]
            ELSE [h1 EXCEPT !.left[parent_] = node]

_bst_insert(h, node) ==
  LET d == bst_descend(h, None, h.root, h.value[node])
      parent_ == d[1]
  IN IF d[2] = None THEN Abort(h)
     ELSE
       LET h1 == [h EXCEPT !.parent[node] = parent_] IN
       IF parent_ = None
       THEN [h1 EXCEPT !.root = node, !.color[node] = "black"]
       ELSE IF h1.value[node] < h1.value[parent_]
            THEN [h1 EXCEPT !.left[parent_] = node]
            ELSE [h1 EXCEPT !.right[parent_] = node]

\* insert without the early return of lines 39-41: a key that is present is
\* logged as skipped and inserted again.
insert_without_return(h, v) ==
  LET found == search_value(h, v) IN
  IF found = Crash THEN Abort(h)
  ELSE
    LET h0 == IF found # None
              THEN Log(h, "Value {value} already exists, skipping.", v)
              ELSE h
        new_node == NewId(h0, v)
        h1 == [h0 EXCEPT !.value[new_node] = v, !.color[new_node] = "red",
                         !.left[new_node] = NIL, !.right[new_node] = NIL,
                         !.parent[new_node] = None]
        h2 == _bst_insert(h1, new_node)
    IN IF h2.err THEN h2
       ELSE LET h3 == Log(h2, "Inserted node {value} (red).", v)
            IN [h3 EXCEPT !.pending_nodes = Append(@, new_node)]

\* insert that returns before line 47 when the new node became the root.
insert_root_not_enqueued(h, v) ==
  LET found == search_value(h, v) IN
  IF found = Crash THEN Abort(h)
  ELSE IF found # None THEN Log(h, "Value {value} already exists, skipping.", v)
  ELSE
    LET new_node == NewId(h, v)
        h1 == [h EXCEPT !.value[new_node] = v, !.color[new_node] = "red",
                        !.left[new_node] = NIL, !.right[new_node] = NIL,
                        !.parent[new_node] = None]
        h2 == _bst_insert(h1, new_node)
    IN IF h2.err THEN h2
       ELSE LET h3 == Log(h2, "Inserted node {value} (red).", v)
            IN IF h3.root = new_node THEN h3
               ELSE [h3 EXCEPT !.pending_nodes = Append(@, new_node)]

insert(h, v) ==
  LET found == search_value(h, v) IN
  IF found = Crash THEN Abort(h)
  ELSE IF found # None THEN Log(h, "Value {value} already exists, skipping.", v)
  ELSE
    LET new_node == NewId(h, v)
        h1 == [h EXCEPT !.value[new_node] = v, !.color[new_node] = "red",
                        !.left[new_node] = NIL, !.right[new_node] = NIL,
                        !.parent[new_node] = None]
        h2 == _bst_insert(h1, new_node)
    IN IF h2.err THEN h2
       ELSE LET h3 == Log(h2, "Inserted node {value} (red).", v)
            IN [h3 EXCEPT !.pending_nodes = Append(@, new_node)]

\* ------------------------------------------------------- insert fixups
\* Line 104 (and 123) after the rotation of case 2: node = node.parent.
node_becomes_parent(h, node) == <<h, IF h.err THEN node ELSE h.parent[node]>>

\* Case 3 of insert_rebalance_full for a parent that is the left child
\* (lines 106-109), on r = <<heap, node>>.
full_left_case3(r, grandparent) ==
  LET h == r[1]
      node == r[2]
  IN IF h.err THEN r
     ELSE IF node = None THEN <<Abort(h), node>>
     ELSE
       LET h2 == IF h.parent[node] # None
                 THEN [h EXCEPT !.color[h.parent[node]] = "black"]
                 ELSE h
       IN <<_rotate_right([h2 EXCEPT !.color[grandparent] = "red"], grandparent),
            node>>

\* Case 3 for a right-child parent that recolours but leaves out the left
\* rotation of the grandparent.
full_right_case3_no_rotation(r, grandparent) ==
  LET h == r[1]
      node == r[2]
  IN IF h.err THEN r
     ELSE IF node = None THEN <<Abort(h), node>>
     ELSE
       LET h2 == IF h.parent[node] # None
                 THEN [h EXCEPT !.color[h.parent[node]] = "black"]
                 ELSE h
       IN <<[h2 EXCEPT !.color[grandparent] = "red"], node>>

\* The mirror image for a parent that is the right child (lines 125-128).
full_right_case3(r, grandparent) ==
  LET h == r[1]
      node == r[2]
  IN IF h.err THEN r
     ELSE IF node = None THEN <<Abort(h), node>>
     ELSE
       LET h2 == IF h.parent[node] # None
                 THEN [h EXCEPT !.color[h.parent[node]] = "black"]
                 ELSE h
       IN <<_rotate_left([h2 EXCEPT !.color[grandparent] = "red"], grandparent),
            node>>

\* Case 2 and case 3 for a parent that is the left child (lines 102-109); the
\* result is <<heap, node>>.
full_left_cases(h, node, grandparent) ==
  full_left_case3(
    IF node = h.right[h.parent[node]]
    THEN node_becomes_parent(_rotate_left(h, h.parent[node]), node)
    ELSE <<h, node>>,
    grandparent)

\* Case 2 and case 3 for a parent that is the right child (lines 121-128).
full_right_cases(h, node, grandparent) ==
  full_right_case3(
    IF node = h.left[h.parent[node]]
    THEN node_becomes_parent(_rotate_right(h, h.parent[node]), node)
    ELSE <<h, node>>,
    grandparent)

RECURSIVE full_loop(_, _)
\* The next iteration, on r = <<heap, node>>.
full_loop_again(r) == full_loop(r[1], r[2])

\* The while loop of insert_rebalance_full (lines 86-128).
full_loop(h, node) ==
  IF h.err THEN h
  ELSE IF ~(h.parent[node] # None /\ h.color[h.parent[node]] = "red") THEN h
  ELSE
    LET p == h.parent[node]
        grandparent == h.parent[p]
    IN IF grandparent = None THEN h
       ELSE
         LET uncle == IF p = h.left[grandparent] THEN h.right[grandparent]
                      ELSE h.left[grandparent]
         IN IF uncle # None /\ h.color[uncle] = "red"
            THEN full_loop(
                   Log([h EXCEPT !.color[p] = "black", !.color[uncle] = "black",
                                 !.color[grandparent] = "red"],
                       "Recoloring parent, uncle, and grandparent.", NoValue),
                   grandparent)
            ELSE full_loop_again(IF p = h.left[grandparent]
                                 THEN full_left_cases(h, node, grandparent)
                                 ELSE full_right_cases(h, node, grandparent))

\* Lines 131-132: the root is made black if there is one.
root_black_if_any(h) ==
  IF h.err THEN h
  ELSE IF h.root # None THEN [h EXCEPT !.color[h.root] = "black"]
  ELSE h

insert_rebalance_full(h, node) == root_black_if_any(full_loop(h, node))

RECURSIVE color_only_loop(_, _)
\* The while loop of insert_rebalance_color_only (lines 138-154).
color_only_loop(h, node) ==
  IF h.err THEN h
  ELSE IF node = None THEN Abort(h)
  ELSE IF ~(node # h.root /\ h.parent[node] # None
            /\ h.color[h.parent[node]] = "red") THEN h
  ELSE
    LET p == h.parent[node]
        grandparent == h.parent[p]
    IN IF grandparent = None THEN h
       ELSE
         LET uncle == IF p = h.left[grandparent] THEN h.right[grandparent]
                      ELSE h.left[grandparent]
         IN IF uncle = None THEN Abort(h)
            ELSE IF h.color[uncle] = "red"
            THEN color_only_loop(
                   Log([h EXCEPT !.color[p] = "black", !.color[uncle] = "black",
                                 !.color[grandparent] = "red"],
                       "Recoloring parent, uncle, and grandparent (color-only).",
                       NoValue),
                   grandparent)
            ELSE Log(h, "Parent red, uncle black -> skipping rotation (color-only).",
                     NoValue)

\* Line 155 left out: the root keeps the color the loop gave it.
root_left_as_colored(h) == h

\* Line 155: the root is made black.
root_black(h) ==
  IF h.err THEN h
  ELSE IF h.root = None THEN Abort(h)
  ELSE [h EXCEPT !.color[h.root] = "black"]

\* insert_rebalance_color_only that rotates as the full fixup does.
insert_rebalance_color_only_with_rotation(h, node) ==
  insert_rebalance_full(h, node)

insert_rebalance_color_only(h, node) == root_black(color_only_loop(h, node))

\* rebalance_step without the guard of lines 69-71: pop(0) on an empty list
\* raises.
rebalance_step_unguarded(h) ==
  IF h.err THEN h
  ELSE IF h.pending_nodes = <<>> THEN Abort(h)
  ELSE IF h.color_only
  THEN insert_rebalance_color_only([h EXCEPT !.pending_nodes = Tail(@)],
                                   Head(h.pending_nodes))
  ELSE insert_rebalance_full([h EXCEPT !.pending_nodes = Tail(@)],
                             Head(h.pending_nodes))

\* rebalance_step that ignores the mode flag and always runs the full fixup.
rebalance_step_always_full(h) ==
  IF h.err THEN h
  ELSE IF h.pending_nodes = <<>>
  THEN Log(h, "No pending nodes to rebalance.", NoValue)
  ELSE insert_rebalance_full([h EXCEPT !.pending_nodes = Tail(@)],
                             Head(h.pending_nodes))

\* rebalance_step that ignores the mode flag and always runs the color-only
\* fixup.
rebalance_step_always_color_only(h) ==
  IF h.err THEN h
  ELSE IF h.pending_nodes = <<>>
  THEN Log(h, "No pending nodes to rebalance.", NoValue)
  ELSE insert_rebalance_color_only([h EXCEPT !.pending_nodes = Tail(@)],
                                   Head(h.pending_nodes))

\* ------------------------------------------------------ pending queue
rebalance_step(h) ==
  IF h.err THEN h
  ELSE IF h.pending_nodes = <<>>
  THEN Log(h, "No pending nodes to rebalance.", NoValue)
  ELSE IF h.color_only
  THEN insert_rebalance_color_only([h EXCEPT !.pending_nodes = Tail(@)],
                                   Head(h.pending_nodes))
  ELSE insert_rebalance_full([h EXCEPT !.pending_nodes = Tail(@)],
                             Head(h.pending_nodes))

RECURSIVE rebalance_all(_)
rebalance_all(h) ==
  IF h.err \/ h.pending_nodes = <<>> THEN h
  ELSE rebalance_all(rebalance_step(h))

\* -------------------------------------------------------------- deletion
RECURSIVE _tree_minimum(_, _)
_tree_minimum(h, node) ==
  IF node = None THEN Crash
  ELSE IF h.left[node] = NIL THEN node
  ELSE _tree_minimum(h, h.left[node])

_rb_transplant(h, u, v) ==
  IF h.err THEN h
  ELSE
    LET up == h.parent[u]
        h1 == IF up = None THEN [h EXCEPT !.root = v]
              ELSE IF u = h.left[up] THEN [h EXCEPT !.left[up] = v]
              ELSE [h EXCEPT !.right[up] = v]
    IN IF v = None THEN Abort(h1)
       ELSE [h1 EXCEPT !.parent[v] = h1.parent[u]]

\* Line 273 (and 294) after the last rotation: x = self.root.
x_becomes_root(h) == <<h, h.root>>

\* Lines 269-273 of _delete_fixup for x a left child, after the rotation of
\* lines 265-268 if far_black; the result is <<heap, x>>.
delete_fixup_left_far_red(h2, x, sibling, far_black) ==
  IF h2.err THEN <<h2, x>>
  ELSE IF h2.parent[x] = None THEN <<Abort(h2), x>>
  ELSE
    LET xp == h2.parent[x]
        sibling2 == IF far_black THEN h2.right[xp] ELSE sibling
    IN IF sibling2 = None THEN <<Abort(h2), x>>
       ELSE
         LET h4 == [h2 EXCEPT !.color[sibling2] = h2.color[xp], !.color[xp] = "black"]
         IN IF h4.right[sibling2] = None THEN <<Abort(h4), x>>
            ELSE x_becomes_root(
                   _rotate_left([h4 EXCEPT !.color[h4.right[sibling2]] = "black"], xp))

\* Lines 260-273 for x a left child, after the rotation of lines 256-259 if
\* red_sibling.
delete_fixup_left_black_sibling(h1, x, sibling0, red_sibling) ==
  IF h1.err THEN <<h1, x>>
  ELSE IF h1.parent[x] = None THEN <<Abort(h1), x>>
  ELSE
    LET sibling == IF red_sibling THEN h1.right[h1.parent[x]] ELSE sibling0 IN
    IF sibling = None THEN <<Abort(h1), x>>
    ELSE IF h1.left[sibling] = None \/ h1.right[sibling] = None
    THEN <<Abort(h1), x>>
    ELSE IF h1.color[h1.left[sibling]] = "black"
            /\ h1.color[h1.right[sibling]] = "black"
    THEN <<[h1 EXCEPT !.color[sibling] = "red"], h1.parent[x]>>
    ELSE IF h1.color[h1.right[sibling]] = "black"
    THEN delete_fixup_left_far_red(
           _rotate_right([h1 EXCEPT !.color[h1.left[sibling]] = "black",
                                    !.color[sibling] = "red"],
                         sibling),
           x, sibling, TRUE)
    ELSE delete_fixup_left_far_red(h1, x, sibling, FALSE)

\* One iteration of _delete_fixup for x a left child (lines 254-273); the
\* result is <<heap, x>>.
delete_fixup_left(h, x) ==
  LET sibling0 == h.right[h.parent[x]] IN
  IF sibling0 = None THEN <<Abort(h), x>>
  ELSE IF h.color[sibling0] = "red"
  THEN delete_fixup_left_black_sibling(
         _rotate_left([h EXCEPT !.color[sibling0] = "black",
                                !.color[h.parent[x]] = "red"],
                      h.parent[x]),
         x, sibling0, TRUE)
  ELSE delete_fixup_left_black_sibling(h, x, sibling0, FALSE)

\* The mirror images for x a right child (lines 275-294).
delete_fixup_right_far_red(h2, x, sibling, far_black) ==
  IF h2.err THEN <<h2, x>>
  ELSE IF h2.parent[x] = None THEN <<Abort(h2), x>>
  ELSE
    LET xp == h2.parent[x]
        sibling2 == IF far_black THEN h2.left[xp] ELSE sibling
    IN IF sibling2 = None THEN <<Abort(h2), x>>
       ELSE
         LET h4 == [h2 EXCEPT !.color[sibling2] = h2.color[xp], !.color[xp] = "black"]
         IN IF h4.left[sibling2] = None THEN <<Abort(h4), x>>
            ELSE x_becomes_root(
                   _rotate_right([h4 EXCEPT !.color[h4.left[sibling2]] = "black"], xp))

delete_fixup_right_black_sibling(h1, x, sibling0, red_sibling) ==
  IF h1.err THEN <<h1, x>>
  ELSE IF h1.parent[x] = None THEN <<Abort(h1), x>>
  ELSE
    LET sibling == IF red_sibling THEN h1.left[h1.parent[x]] ELSE sibling0 IN
    IF sibling = None THEN <<Abort(h1), x>>
    ELSE IF h1.right[sibling] = None \/ h1.left[sibling] = None
    THEN <<Abort(h1), x>>
    ELSE IF h1.color[h1.right[sibling]] = "black"
            /\ h1.color[h1.left[sibling]] = "black"
    THEN <<[h1 EXCEPT !.color[sibling] = "red"], h1.parent[x]>>
    ELSE IF h1.color[h1.left[sibling]] = "black"
    THEN delete_fixup_right_far_red(
           _rotate_left([h1 EXCEPT !.color[h1.right[sibling]] = "black",
                                   !.color[sibling] = "red"],
                        sibling),
           x, sibling, TRUE)
    ELSE delete_fixup_right_far_red(h1, x, sibling, FALSE)

delete_fixup_right(h, x) ==
  LET sibling0 == h.left[h.parent[x]] IN
  IF sibling0 = None THEN <<Abort(h), x>>
  ELSE IF h.color[sibling0] = "red"
  THEN delete_fixup_right_black_sibling(
         _rotate_right([h EXCEPT !.color[sibling0] = "black",
                                 !.color[h.parent[x]] = "red"],
                       h.parent[x]),
         x, sibling0, TRUE)
  ELSE delete_fixup_right_black_sibling(h, x, sibling0, FALSE)

RECURSIVE _delete_fixup(_, _)
\* The next iteration, on r = <<heap, x>>.
delete_fixup_again(r) == _delete_fixup(r[1], r[2])

_delete_fixup(h, x) ==
  IF h.err THEN h
  ELSE IF x = None THEN Abort(h)
  ELSE IF ~(x # h.root /\ h.color[x] = "black")
  THEN [h EXCEPT !.color[x] = "black"]
  ELSE IF h.parent[x] = None THEN Abort(h)
  ELSE delete_fixup_again(IF x = h.left[h.parent[x]] THEN delete_fixup_left(h, x)
                          ELSE delete_fixup_right(h, x))

\* Lines 227-228 after the transplant of line 226.
adopt_right_subtree(t1, z, y) ==
  IF t1.err THEN t1
  ELSE IF t1.right[z] = None THEN Abort([t1 EXCEPT !.right[y] = t1.right[z]])
  ELSE [t1 EXCEPT !.right[y] = t1.right[z], !.parent[t1.right[z]] = y]

\* Lines 230-232 after the transplant of line 229.
adopt_left_subtree(h2, z, y) ==
  IF h2.err THEN h2
  ELSE IF h2.left[z] = None THEN Abort([h2 EXCEPT !.left[y] = h2.left[z]])
  ELSE
    LET h4 == [h2 EXCEPT !.left[y] = h2.left[z], !.parent[h2.left[z]] = y]
    IN [h4 EXCEPT !.color[y] = h4.color[z]]

\* The two-children branch of _delete_node (lines 220-232); the result is
\* <<heap, x, y_original_color>>.
delete_two_children(h, z) ==
  LET y == _tree_minimum(h, h.right[z]) IN
  IF y = Crash THEN <<Abort(h), None, "red">>
  ELSE IF h.parent[y] = z /\ h.right[y] = None
  THEN <<Abort(h), h.right[y], h.color[y]>>
  ELSE <<adopt_left_subtree(
           _rb_transplant(
             IF h.parent[y] = z
             THEN [h EXCEPT !.parent[h.right[y]] = y]
             ELSE adopt_right_subtree(_rb_transplant(h, y, h.right[y]), z, y),
             z, y),
           z, y),
         h.right[y], h.color[y]>>

\* delete_node_fixup that never calls _delete_fixup.
delete_node_without_fixup(r, z) ==
  IF r[1].err THEN r[1]
  ELSE Log(r[1], "Deleted node {value}.", r[1].value[z])

\* Lines 233-235 on r = <<heap, x, y_original_color>>.
delete_node_fixup(r, z) ==
  IF r[1].err THEN r[1]
  ELSE IF r[3] = "black"
  THEN _delete_fixup(Log(r[1], "Deleted node {value}.", r[1].value[z]), r[2])
  ELSE Log(r[1], "Deleted node {value}.", r[1].value[z])

\* Lines 211-232 of _delete_node: z is cut out of the tree; the result is
\* <<heap, x, y_original_color>>.
excise(h, z) ==
  IF h.left[z] = NIL
  THEN <<_rb_transplant(h, z, h.right[z]), h.right[z], h.color[z]>>
  ELSE IF h.right[z] = NIL
  THEN <<_rb_transplant(h, z, h.left[z]), h.left[z], h.color[z]>>
  ELSE delete_two_children(h, z)

_delete_node(h, z) == delete_node_fixup(excise(h, z), z)

\* delete without the early return of line 207: a key that is absent is logged
\* as not found and _delete_node is then called on None.
delete_without_return(h, v) ==
  LET node_to_delete == search_value(h, v) IN
  IF node_to_delete = Crash THEN Abort(h)
  ELSE IF node_to_delete = None
  THEN Abort(Log(h, "Value {value} not found for deletion.", v))
  ELSE _delete_node(h, node_to_delete)

delete(h, v) ==
  LET node_to_delete == search_value(h, v) IN
  IF node_to_delete = Crash THEN Abort(h)
  ELSE IF node_to_delete = None
  THEN Log(h, "Value {value} not found for deletion.", v)
  ELSE _delete_node(h, node_to_delete)

\* clear that empties the log as well.
clear_with_log(h) ==
  Log([h EXCEPT !.root = NIL, !.pending_nodes = <<>>, !.steps = <<>>],
      "Cleared the entire tree.", NoValue)

clear(h) ==
  Log([h EXCEPT !.root = NIL, !.pending_nodes = <<>>], "Cleared the entire tree.",
      NoValue)

\* ------------------------------------------------------------ traversal
RECURSIVE inorder(_, _)
\* The keys of inorder(), in the order produced.
inorder(h, node) ==
  IF node = NIL THEN <<>>
  ELSE inorder(h, h.left[node]) \o <<h.value[node]>> \o inorder(h, h.right[node])

\* ------------------------------------------------------ validity checker
Err(m, v) == [msg |-> m, v |-> v]

\* check_red_children that looks at the left child only.
RECURSIVE check_red_children_left_only(_, _)
check_red_children_left_only(h, node) ==
  IF node = NIL THEN <<>>
  ELSE
    (IF h.color[node] = "red" /\ h.color[h.left[node]] = "red"
     THEN <<Err("Red node {value} has a red left child.", h.value[node])>>
     ELSE <<>>)
    \o check_red_children_left_only(h, h.left[node])
    \o check_red_children_left_only(h, h.right[node])

RECURSIVE check_red_children(_, _)
check_red_children(h, node) ==
  IF node = NIL THEN <<>>
  ELSE
    (IF h.color[node] = "red" /\ h.color[h.left[node]] = "red"
     THEN <<Err("Red node {value} has a red left child.", h.value[node])>>
     ELSE <<>>)
    \o (IF h.color[node] = "red" /\ h.color[h.right[node]] = "red"
        THEN <<Err("Red node {value} has a red right child.", h.value[node])>>
        ELSE <<>>)
    \o check_red_children(h, h.left[node])
    \o check_red_children(h, h.right[node])

RECURSIVE black_height(_, _)
\* The black-height of the subtree at n, or -1 if mismatched, with the
\* errors the walk appended.
black_height(h, n) ==
  IF n = NIL THEN [bh |-> 1, errors |-> <<>>]
  ELSE
    LET l == black_height(h, h.left[n])
        r == black_height(h, h.right[n])
        sub == l.errors \o r.errors
    IN IF l.bh < 0 \/ r.bh < 0 THEN [bh |-> -1, errors |-> sub]
       ELSE IF l.bh # r.bh
       THEN [bh |-> -1,
             errors |-> Append(sub, Err("Black-height mismatch at node {value}.",
                                        h.value[n]))]
       ELSE [bh |-> l.bh + (IF h.color[n] = "black" THEN 1 ELSE 0), errors |-> sub]

\* The errors list of check_rb_properties.
check_rb_properties(h) ==
  LET tree_bh == black_height(h, h.root) IN
  (IF h.root # NIL /\ h.color[h.root] # "black"
   THEN <<Err("Root node {value} is not black.", h.value[h.root])>> ELSE <<>>)
  \o (IF h.color[NIL] # "black"
      THEN <<Err("NIL sentinel is not black (unexpected).", NoValue)>> ELSE <<>>)
  \o check_red_children(h, h.root)
  \o tree_bh.errors
  \o (IF tree_bh.bh < 0
      THEN <<Err("Paths do not have the same black-height (see mismatch above).",
                 NoValue)>>
      ELSE <<>>)

\* ---------------------------------------------------------------- actions
\* The sentinel's parent link is written by _rb_transplant (line 249) and by
\* line 224, and read by _delete_fixup only later in the same delete; no code
\* reads it between two calls, so it is not carried from one call to the next.
Settle(h) == Collect([h EXCEPT !.parent[NIL] = None])

CommitTree(h) ==
  LET g == Settle(h) IN
  /\ value' = g.value
  /\ color' = g.color
  /\ left' = g.left
  /\ right' = g.right
  /\ parent' = g.parent
  /\ root' = g.root
  /\ steps' = g.steps
  /\ pending_nodes' = g.pending_nodes
  /\ color_only' = g.color_only
  /\ err' = g.err

\* An operation outside the coroutine leaves the coroutine's locals alone.
Commit(h) == CommitTree(h) /\ UNCHANGED coroutine

Init ==
  /\ value = EmptyHeap.value
  /\ color = EmptyHeap.color
  /\ left = EmptyHeap.left
  /\ right = EmptyHeap.right
  /\ parent = EmptyHeap.parent
  /\ root = EmptyHeap.root
  /\ steps = EmptyHeap.steps
  /\ pending_nodes = EmptyHeap.pending_nodes
  /\ color_only = EmptyHeap.color_only
  /\ err = EmptyHeap.err
  /\ keyset = {}
  /\ color_only_used = FALSE
  /\ values = <<>>
  /\ sorted_values = <<>>
  /\ generating = FALSE

\* Node objects are bounded: a key that is absent needs an object to be made,
\* and at most cap node objects exist at a time.
CanInsert(k, cap) ==
  search_value(Heap, k) # None \/ Cardinality(Live(Heap) \ {NIL}) < cap

\* A fixup in color-only mode runs when a step finds the queue non-empty.
StepUsesColorOnly == color_only /\ pending_nodes # <<>>

\* A key that is absent is inserted only while no node object still holds it
\* (a deleted node stays alive while the pending queue refers to it).
FreshKey(k) ==
  search_value(Heap, k) # None \/ \A n \in Live(Heap) \ {NIL} : value[n] # k

\* ---- the engine's operations, called directly (RedBlackTree methods).
\* The caller consumes the log before it holds more than MaxSteps entries.
Callable == err = FALSE /\ Len(steps) <= MaxSteps

Insert(k) ==
  /\ Callable
  /\ CanInsert(k, MaxNodes)
  /\ Commit(insert(Heap, k))
  /\ keyset' = keyset \cup {k}
  /\ UNCHANGED color_only_used

Delete(k) ==
  /\ Callable
  /\ Commit(delete(Heap, k))
  /\ keyset' = keyset \ {k}
  /\ UNCHANGED color_only_used

RebalanceStep ==
  /\ Callable
  /\ Commit(rebalance_step(Heap))
  /\ color_only_used' = (color_only_used \/ StepUsesColorOnly)
  /\ UNCHANGED keyset

RebalanceAll ==
  /\ Callable
  /\ Commit(rebalance_all(Heap))
  /\ color_only_used' = (color_only_used \/ StepUsesColorOnly)
  /\ UNCHANGED keyset

Clear ==
  /\ Callable
  /\ Commit(clear(Heap))
  /\ keyset' = {}
  /\ UNCHANGED color_only_used

\* The caller consumes and clears the log (line 1148).
update_log_and_tree(h) == IF h.err THEN h ELSE [h EXCEPT !.steps = <<>>]

UpdateLogAndTree ==
  /\ err = FALSE
  /\ steps # <<>>
  /\ Commit(update_log_and_tree(Heap))
  /\ UNCHANGED <<keyset, color_only_used>>

\* ---- the application's handlers (RedBlackTreeApp methods): an engine call
\* followed by update_log_and_tree.
insert_value(h, k) == update_log_and_tree(insert(h, k))

delete_value(h, k) == update_log_and_tree(delete(h, k))

app_rebalance_step(h) == update_log_and_tree(rebalance_step(h))

app_rebalance_all(h) == update_log_and_tree(rebalance_all(h))

clear_tree(h) == update_log_and_tree(clear(h))

toggle_color_mode(h) ==
  Log([h EXCEPT !.color_only = ~h.color_only], "Switched to {mode} rebalancing mode.",
      NoValue)

InsertValue(k) ==
  /\ err = FALSE
  /\ CanInsert(k, MaxNodes)
  /\ Commit(insert_value(Heap, k))
  /\ keyset' = keyset \cup {k}
  /\ UNCHANGED color_only_used

DeleteValue(k) ==
  /\ err = FALSE
  /\ Commit(delete_value(Heap, k))
  /\ keyset' = keyset \ {k}
  /\ UNCHANGED color_only_used

AppRebalanceStep ==
  /\ err = FALSE
  /\ Commit(app_rebalance_step(Heap))
  /\ color_only_used' = (color_only_used \/ StepUsesColorOnly)
  /\ UNCHANGED keyset

AppRebalanceAll ==
  /\ err = FALSE
  /\ Commit(app_rebalance_all(Heap))
  /\ color_only_used' = (color_only_used \/ StepUsesColorOnly)
  /\ UNCHANGED keyset

ClearTree ==
  /\ err = FALSE
  /\ Commit(clear_tree(Heap))
  /\ keyset' = {}
  /\ UNCHANGED color_only_used

ToggleColorMode ==
  /\ Callable
  /\ Commit(toggle_color_mode(Heap))
  /\ UNCHANGED <<keyset, color_only_used>>

\* ---- the heuristic rebuild driver (RedBlackTreeApp.generate_balanced_tree)
\* sorted(values)
RECURSIVE sorted(_)
place(s, x) ==
  LET before == {i \in 1..Len(s) : s[i] <= x}
  IN SubSeq(s, 1, Cardinality(before)) \o <<x>>
       \o SubSeq(s, Cardinality(before) + 1, Len(s))

sorted(s) == IF s = <<>> THEN <<>> ELSE place(sorted(Tail(s)), Head(s))

\* list.remove(x): the list without the first occurrence of x.
RECURSIVE remove(_, _)
remove(s, x) ==
  IF s = <<>> THEN <<>>
  ELSE IF Head(s) = x THEN Tail(s)
  ELSE <<Head(s)>> \o remove(Tail(s), x)

\* The objects the next constructor calls create, in the order of the calls.
RECURSIVE Ascending(_)
Ascending(S) ==
  IF S = {} THEN <<>>
  ELSE LET m == CHOOSE x \in S : \A y \in S : x <= y
       IN <<m>> \o Ascending(S \ {m})

NewIds(h) == Ascending(FreeIds(h))

\* RedBlackTreeNode(values[mid], color="black")
black_node(h, node, v) ==
  [h EXCEPT !.value[node] = v, !.color[node] = "black", !.left[node] = None,
            !.right[node] = None, !.parent[node] = None]

\* node.left = <the subtree built>; the result is <<heap, node>>.
build_left(r, node) == <<[r[1] EXCEPT !.left[node] = r[2]], node>>

build_right(r, node) == <<[r[1] EXCEPT !.right[node] = r[2]], node>>

\* _build_balanced_bst_from_sorted over vals[start..end] (indices from 0);
\* ids are the objects it creates; the result is <<heap, subtree root>>.
RECURSIVE _build_balanced_bst_from_sorted(_, _, _, _, _)
_build_balanced_bst_from_sorted(h, vals, start, end, ids) ==
  IF start > end THEN <<h, None>>
  ELSE
    LET mid == (start + end) \div 2
    IN build_right(
         _build_balanced_bst_from_sorted(
           build_left(
             _build_balanced_bst_from_sorted(
               black_node(h, ids[1], vals[mid + 1]), vals, start, mid - 1,
               SubSeq(ids, 2, 1 + mid - start)),
             ids[1])[1],
           vals, mid + 1, end, SubSeq(ids, 2 + mid - start, Len(ids))),
         ids[1])

RECURSIVE _set_nil_links(_, _, _)
set_left_link(h, node) ==
  IF h.left[node] = None THEN [h EXCEPT !.left[node] = NIL]
  ELSE _set_nil_links(h, h.left[node], node)

set_right_link(h, node) ==
  IF h.right[node] = None THEN [h EXCEPT !.right[node] = NIL]
  ELSE _set_nil_links(h, h.right[node], node)

\* _set_nil_links that leaves node.parent as the constructor set it.
_set_nil_links_without_parent(h, node, parent_) ==
  IF node = None \/ node = NIL THEN h
  ELSE set_right_link(set_left_link(h, node), node)

_set_nil_links(h, node, parent_) ==
  IF node = None \/ node = NIL THEN h
  ELSE set_right_link(set_left_link([h EXCEPT !.parent[node] = parent_], node),
                      node)

\* Lines 932-940 of balance_binary_tree, r being <<heap, new root>>.
adopt_rebuilt(r) ==
  IF r[2] = None THEN Abort([r[1] EXCEPT !.root = None])
  ELSE Log(_set_nil_links([r[1] EXCEPT !.root = r[2], !.parent[r[2]] = None],
                          r[2], None),
           "Binary Tree Balanced: Converted to a balanced BST.", NoValue)

rebuild_from(h, node_values) ==
  adopt_rebuilt(_build_balanced_bst_from_sorted(h, node_values, 0,
                                                Len(node_values) - 1, NewIds(h)))

balance_binary_tree(h) ==
  IF h.err THEN h ELSE rebuild_from(h, inorder(h, h.root))

\* _color_all_red without the test for the sentinel: it stops at None only.
RECURSIVE _color_all_red_through_sentinel(_, _)
_color_all_red_through_sentinel(h, node) ==
  IF node = None THEN h
  ELSE _color_all_red_through_sentinel(
         _color_all_red_through_sentinel(
           [h EXCEPT !.color[node] = IF node = h.root THEN "black" ELSE "red"],
           h.left[node]),
         h.right[node])

RECURSIVE _color_all_red(_, _)
_color_all_red(h, node) ==
  IF node = None \/ node = NIL THEN [h EXCEPT !.color[NIL] = "black"]
  ELSE _color_all_red(
         _color_all_red(
           [h EXCEPT !.color[node] = IF node = h.root THEN "black" ELSE "red"],
           h.left[node]),
         h.right[node])

RECURSIVE _calculate_black_height(_, _)
larger(a, b) == IF a >= b THEN a ELSE b

_calculate_black_height(h, node) ==
  IF node = NIL THEN 1
  ELSE larger(_calculate_black_height(h, h.left[node]),
              _calculate_black_height(h, h.right[node]))
         + (IF h.color[node] = "black" THEN 1 ELSE 0)

RECURSIVE _calculate_depth(_, _)
_calculate_depth(h, node) ==
  IF node = None \/ node = h.root THEN 0
  ELSE 1 + _calculate_depth(h, h.parent[node])

abs(a) == IF a < 0 THEN -a ELSE a

evaluate_node(h, node) ==
  IF node = NIL THEN -1
  ELSE abs(_calculate_black_height(h, h.left[node])
             - _calculate_black_height(h, h.right[node])) * 5
       + (IF /\ h.color[node] = "red"
             /\ (h.color[h.left[node]] = "red" \/ h.color[h.right[node]] = "red")
          THEN 10 ELSE 0)
       - _calculate_depth(h, node)

\* Lines 736-741: a candidate replaces best_node when it scores higher.
better(h, best_node, candidate) ==
  IF candidate # None /\ evaluate_node(h, candidate) > evaluate_node(h, best_node)
  THEN candidate ELSE best_node

RECURSIVE traverse_and_find_best(_, _)
traverse_and_find_best(h, node) ==
  IF node = NIL THEN None
  ELSE better(h, better(h, node, traverse_and_find_best(h, h.left[node])),
              traverse_and_find_best(h, h.right[node]))

select_best_node(h) == traverse_and_find_best(h, h.root)

\* Lines 545-549: the fixup of the best node, then a drain of the queue.
rebalance_best(h, best_node) ==
  IF best_node = None THEN h
  ELSE rebalance_all(
         insert_rebalance_full(
           Log(h, "Best node for rebalancing: {value}", h.value[best_node]),
           best_node))

recolor_and_rebalance_best(h) ==
  IF h.err THEN h ELSE rebalance_best(h, select_best_node(h))

color_from_root(h) == IF h.err THEN h ELSE _color_all_red(h, h.root)

\* One turn of the loop of generate_balanced_tree (lines 541-553).
generate_iteration(h, v) ==
  update_log_and_tree(
    rebalance_all(
      recolor_and_rebalance_best(
        color_from_root(balance_binary_tree(insert(h, v))))))

\* Lines 531-539: the new tree with the median of the sample inserted.
generate_start(vals) == insert(EmptyHeap, sorted(vals)[(Len(vals) \div 2) + 1])

\* Lines 555-571: the tail of generate_balanced_tree.
generate_finish(h) ==
  IF h.root = NIL THEN Log(h, "No tree built from the provided values.", NoValue)
  ELSE Log(rebalance_all(h),
           "Generated a pseudo-balanced BST of size {count} with seed {seed}.",
           NoValue)

\* The samples random.randint can draw: any values, repeated or not.
Samples == UNION {[1..n -> GenKeys] : n \in 1..MaxCount}

GenerateStart(vals) ==
  /\ err = FALSE
  /\ ~generating
  /\ CommitTree(generate_start(vals))
  /\ values' = vals
  /\ sorted_values' = remove(sorted(vals), sorted(vals)[(Len(vals) \div 2) + 1])
  /\ generating' = TRUE
  /\ keyset' = {sorted(vals)[(Len(vals) \div 2) + 1]}
  /\ UNCHANGED color_only_used

GenerateIteration ==
  /\ err = FALSE
  /\ generating
  /\ sorted_values # <<>>
  /\ CommitTree(generate_iteration(Heap, Head(sorted_values)))
  /\ sorted_values' = Tail(sorted_values)
  /\ keyset' = keyset \cup {Head(sorted_values)}
  /\ UNCHANGED <<values, generating, color_only_used>>

GenerateFinish ==
  /\ err = FALSE
  /\ generating
  /\ sorted_values = <<>>
  /\ CommitTree(generate_finish(Heap))
  /\ generating' = FALSE
  /\ values' = <<>>
  /\ UNCHANGED <<sorted_values, keyset, color_only_used>>

\* ---- the checker on any tree (RedBlackTreeApp.check_rb_properties)
\* The final reporting (lines 1127-1131): each error is logged, or the success
\* message.
report_errors(h, errors) ==
  IF errors = <<>>
  THEN Log(h, "RB Check Passed: All Red-Black properties satisfied.", NoValue)
  ELSE [h EXCEPT !.steps =
          @ \o [i \in 1..Len(errors) |->
                  [msg |-> "RB Check Failed: {error}", v |-> errors[i].v,
                   error |-> errors[i].msg]]]

check_rb_properties_handler(h) == report_errors(h, check_rb_properties(h))

CheckRBProperties ==
  /\ err = FALSE
  /\ steps = <<>>
  /\ Commit(check_rb_properties_handler(Heap))
  /\ UNCHANGED <<keyset, color_only_used>>

\* The binary trees over the nodes lo..hi, every missing child being the
\* sentinel: pairs <<root, links>> with a link <<node, left, right>> per node.
RECURSIVE Shapes(_, _)
Shapes(lo, hi) ==
  IF lo > hi THEN {<<NIL, {}>>}
  ELSE UNION {
         {<<r, L[2] \cup R[2] \cup {<<r, L[1], R[1]>>}>> :
            L \in Shapes(lo, r - 1), R \in Shapes(r + 1, hi)} :
         r \in lo..hi}

LinkOf(links, n) == CHOOSE l \in links : l[1] = n

ParentOf(links, n) ==
  IF \E l \in links : l[2] = n \/ l[3] = n
  THEN (CHOOSE l \in links : l[2] = n \/ l[3] = n)[1]
  ELSE None

\* The tree object holding shape s over n nodes with the colours c.
TreeOf(s, n, c) ==
  [EmptyHeap EXCEPT
     !.value = [m \in NodeIds |-> IF m \in 1..n THEN m ELSE NoValue],
     !.color = [m \in NodeIds |-> IF m \in 0..n THEN c[m] ELSE "red"],
     !.left = [m \in NodeIds |-> IF m \in 1..n THEN LinkOf(s[2], m)[2] ELSE None],
     !.right = [m \in NodeIds |-> IF m \in 1..n THEN LinkOf(s[2], m)[3] ELSE None],
     !.parent = [m \in NodeIds |-> IF m \in 1..n THEN ParentOf(s[2], m) ELSE None],
     !.root = s[1]]

\* Any shape of up to MaxCheckNodes nodes with any colouring, the sentinel's
\* colour included.
CheckTrees ==
  UNION {{TreeOf(s, n, c) : s \in Shapes(1, n), c \in [0..n -> {"red", "black"}]} :
           n \in 0..MaxCheckNodes}

InitCheck ==
  \E t \in CheckTrees :
    /\ value = t.value
    /\ color = t.color
    /\ left = t.left
    /\ right = t.right
    /\ parent = t.parent
    /\ root = t.root
    /\ steps = <<>>
    /\ pending_nodes = <<>>
    /\ color_only = FALSE
    /\ err = FALSE
    /\ keyset = {n \in RealIds : t.value[n] # NoValue}
    /\ color_only_used = FALSE
    /\ values = <<>>
    /\ sorted_values = <<>>
    /\ generating = FALSE

NextCheck == CheckRBProperties

SpecCheck == InitCheck /\ [][NextCheck]_vars

\* ---------------------------------------------------------- specifications
\* Every handler of the application, in any order.
Next ==
  \/ \E k \in Keys : CanInsert(k, MaxLive) /\ InsertValue(k)
  \/ \E k \in Keys : DeleteValue(k)
  \/ AppRebalanceStep
  \/ AppRebalanceAll
  \/ ClearTree
  \/ ToggleColorMode

Spec == Init /\ [][Next]_vars

\* Full mode only: inserts, deletes and rebalancing.
NextFull ==
  \/ \E k \in FullKeys : FreshKey(k) /\ InsertValue(k)
  \/ \E k \in FullKeys : DeleteValue(k)
  \/ AppRebalanceStep
  \/ AppRebalanceAll

SpecFull == Init /\ [][NextFull]_vars

\* Insert-only histories in full mode.
NextIns ==
  \/ \E k \in InsKeys : InsertValue(k)
  \/ AppRebalanceStep
  \/ AppRebalanceAll

SpecIns == Init /\ [][NextIns]_vars

\* Full mode with keys inserted again after their deletion while the deleted
\* nodes are still queued: absent keys are inserted and present keys deleted
\* with nothing rebalanced, starting from the empty tree, then the queue is
\* drained at once; at most MaxObjects node objects exist at a time.
ReinsertInsert(k) ==
  /\ pending_nodes # <<>> \/ root = NIL
  /\ k \notin keyset
  /\ CanInsert(k, MaxObjects)
  /\ InsertValue(k)

ReinsertDelete(k) == pending_nodes # <<>> /\ k \in keyset /\ DeleteValue(k)

ReinsertRebalance == pending_nodes # <<>> /\ AppRebalanceAll

NextReinsert ==
  \/ \E k \in FullKeys : ReinsertInsert(k)
  \/ \E k \in FullKeys : ReinsertDelete(k)
  \/ ReinsertRebalance

SpecReinsert == Init /\ [][NextReinsert]_vars

\* Insert-only histories with the mode switched at any time.
NextInsMode ==
  \/ \E k \in InsKeys : InsertValue(k)
  \/ AppRebalanceStep
  \/ ToggleColorMode

SpecInsMode == Init /\ [][NextInsMode]_vars

\* Round trips: a batch of inserts, rebalance-all, then deletes only.
RoundTripInsert(k) ==
  (pending_nodes # <<>> \/ keyset = {}) /\ k \notin keyset /\ InsertValue(k)

RoundTripRebalance == pending_nodes # <<>> /\ AppRebalanceAll

RoundTripDelete(k) == pending_nodes = <<>> /\ k \in keyset /\ DeleteValue(k)

NextRoundTrip ==
  \/ \E k \in InsKeys : RoundTripInsert(k)
  \/ RoundTripRebalance
  \/ \E k \in InsKeys : RoundTripDelete(k)

SpecRoundTrip == Init /\ [][NextRoundTrip]_vars

\* The engine called directly, its log included.
NextEngine ==
  \/ \E k \in EngineKeys : FreshKey(k) /\ Insert(k)
  \/ \E k \in EngineKeys : Delete(k)
  \/ RebalanceStep
  \/ RebalanceAll
  \/ Clear
  \/ UpdateLogAndTree

SpecEngine == Init /\ [][NextEngine]_vars

\* Building a tree from the keys 1..MaxBuildKey in full mode, in any order and
\* with the queue drained at any time, by steps or at once, then deleting key 4 from the complete,
\* rebalanced tree.
BuildInsert(k) == ~color_only /\ k \notin keyset /\ FreshKey(k) /\ InsertValue(k)

BuildDelete == keyset = BuildKeys /\ pending_nodes = <<>> /\ DeleteValue(4)

NextBuild ==
  \/ \E k \in BuildKeys : BuildInsert(k)
  \/ AppRebalanceStep
  \/ AppRebalanceAll
  \/ BuildDelete

SpecBuild == Init /\ [][NextBuild]_vars

\* The driver alone: started on any sample, one loop turn at a time (it yields
\* at the sleep that ends each turn), then its tail.
NextGenerate ==
  \/ \E vals \in Samples : GenerateStart(vals)
  \/ GenerateIteration
  \/ GenerateFinish

SpecGenerate == Init /\ [][NextGenerate]_vars

\* Every handler of the application and the driver. The driver replaces the
\* tree object, so what it does is the same whatever tree it starts from: it
\* is started from the cleared tree, and the handlers run while it is not
\* running.
AllStart(vals) == root = NIL /\ pending_nodes = <<>> /\ GenerateStart(vals)

NextAll ==
  \/ \E k \in Keys : ~generating /\ CanInsert(k, MaxLive) /\ InsertValue(k)
  \/ \E k \in Keys : ~generating /\ DeleteValue(k)
  \/ ~generating /\ AppRebalanceStep
  \/ ~generating /\ AppRebalanceAll
  \/ ~generating /\ ClearTree
  \/ ~generating /\ ToggleColorMode
  \/ \E vals \in Samples : AllStart(vals)
  \/ GenerateIteration
  \/ GenerateFinish

SpecAll == Init /\ [][NextAll]_vars

\* Inserts and single steps with the mode switched at any time; the engine is
\* called directly and the caller consumes the log.
NextMode ==
  \/ \E k \in Keys : FreshKey(k) /\ Insert(k)
  \/ RebalanceStep
  \/ ToggleColorMode
  \/ UpdateLogAndTree

SpecMode == Init /\ [][NextMode]_vars

\* The scenarios of inserting 10, 20, 30 in that order: the mode is chosen
\* while the tree is empty, the queue is drained at any time, by steps or at
\* once, and clearing the tree starts over; the engine is called directly.
ScenarioKeys == <<10, 20, 30>>

ScenarioInsert(i) ==
  /\ keyset = SeqRange(SubSeq(ScenarioKeys, 1, i - 1))
  /\ Insert(ScenarioKeys[i])

ScenarioMode == keyset = {} /\ pending_nodes = <<>> /\ ToggleColorMode

NextScenario ==
  \/ \E i \in 1..Len(ScenarioKeys) : ScenarioInsert(i)
  \/ RebalanceStep
  \/ RebalanceAll
  \/ ScenarioMode
  \/ Clear
  \/ UpdateLogAndTree

SpecScenario == Init /\ [][NextScenario]_vars

\* ------------------------------------------------------------------ claims
Valid == check_rb_properties(Heap) = <<>>

StrictlyAscending(s) == \A i \in 1..(Len(s) - 1) : s[i] < s[i + 1]

InorderKeys == inorder(Heap, root)

\* C1: in full mode, after any sequence of inserts (with or without
\* intermediate steps) that leaves a non-empty tree, once the queue has been
\* drained the checker reports no violations.
C1_FullModeInsertsValid ==
  (err = FALSE /\ pending_nodes = <<>> /\ root # NIL) => Valid

\* C2: in full mode, whenever the pending queue is empty after any sequence of
\* insert, delete, rebalance-step and rebalance-all, properties 1-4 hold.
C2_ValidWhenQueueEmpty ==
  (err = FALSE /\ ~color_only_used /\ pending_nodes = <<>>) => Valid

\* C3: no sequence of public operations makes an operation abort by following
\* an absent link.
C3_NoAbort == err = FALSE

\* C4: the keys reachable from root are exactly the keys inserted and not since
\* deleted or cleared, each once, and search finds exactly those keys.
C4_SetOfKeys ==
  err = FALSE =>
    /\ StrictlyAscending(InorderKeys)
    /\ SeqRange(InorderKeys) = keyset
    /\ \A k \in FullKeys : (search_value(Heap, k) # None) <=> (k \in keyset)

\* C5: after inserts followed by full-mode rebalancing the in-order traversal
\* lists the keys in strictly ascending order, without duplicates.
C5_InorderAscending ==
  (err = FALSE /\ pending_nodes = <<>>) => StrictlyAscending(InorderKeys)

C5_Witness ==
  /\ err = FALSE
  /\ pending_nodes = <<>>
  /\ Len(InorderKeys) = MaxInsKey
  /\ value[root] \notin {InorderKeys[1], InorderKeys[Len(InorderKeys)]}

\* C6: inserting a set of keys, rebalancing fully in full mode and then
\* deleting all of them, in any orders, ends with root = sentinel.
C6_RoundTripEmpty == err = FALSE /\ (keyset = {} => root = NIL)

\* C7: with the queue drained, properties 1-4 hold if and only if every fixup
\* ran in full mode.
C7_ValidIffFullMode ==
  (err = FALSE /\ pending_nodes = <<>> /\ root # NIL) => (Valid <=> ~color_only_used)

\* The keys in the tree.
TreeKeys == SeqRange(InorderKeys)

Frame == <<value, color, left, right, parent, root, pending_nodes>>

OneMoreEntry == Len(steps') = Len(steps) + 1 /\ SubSeq(steps', 1, Len(steps)) = steps

\* C8: insert of a key already in the tree leaves root, links, colors, key set
\* and pending queue unchanged and appends exactly one log entry.
C8_DuplicateInsertNoOp ==
  [][\A k \in EngineKeys :
       (search_value(Heap, k) # None /\ Insert(k))
         => (UNCHANGED Frame /\ TreeKeys' = TreeKeys /\ OneMoreEntry /\ err' = FALSE)]_vars

C8_Witness ==
  /\ Len(steps) = 2
  /\ steps[2].msg = "Value {value} already exists, skipping."
  /\ root # NIL
  /\ pending_nodes # <<>>

\* C9: delete of a key not in the tree leaves root, links, colors, pending queue
\* and the result of the validity check unchanged and appends exactly one log
\* entry.
C9_DeleteAbsentNoOp ==
  [][\A k \in EngineKeys :
       (search_value(Heap, k) = None /\ Delete(k))
         => /\ UNCHANGED Frame
            /\ check_rb_properties(Heap)' = check_rb_properties(Heap)
            /\ OneMoreEntry
            /\ err' = FALSE]_vars

C9_Witness ==
  /\ Len(steps) = 2
  /\ steps[2].msg = "Value {value} not found for deletion."
  /\ root # NIL
  /\ pending_nodes # <<>>

\* C10 as stated: insert into an empty tree makes the new node the black root
\* and leaves the pending queue as it was.
C10_EmptyInsertBypassesQueue ==
  [][\A k \in EngineKeys :
       (root = NIL /\ Insert(k))
         => /\ root' # NIL /\ value'[root'] = k /\ color'[root'] = "black"
            /\ pending_nodes' = pending_nodes]_vars

\* C10 as the code has it: insert into an empty tree makes the new node the
\* black root and appends it to the pending queue like any other insert.
C10_EmptyInsertEnqueuesRoot ==
  [][\A k \in EngineKeys :
       (root = NIL /\ Insert(k))
         => /\ root' # NIL /\ value'[root'] = k /\ color'[root'] = "black"
            /\ parent'[root'] = None /\ left'[root'] = NIL /\ right'[root'] = NIL
            /\ pending_nodes' = Append(pending_nodes, root')
            /\ err' = FALSE]_vars

C10_Witness ==
  /\ root # NIL
  /\ left[root] = NIL /\ right[root] = NIL
  /\ Len(pending_nodes) = 2
  /\ pending_nodes[2] = root
  /\ steps # <<>>
  /\ steps[Len(steps)].msg = "Inserted node {value} (red)."

\* C11: rebalance-step on an empty pending queue returns normally, appends
\* exactly one no-op notice to the log and leaves root, all links and colors
\* and the empty queue unchanged.
C11_EmptyStepNoOp ==
  [][(pending_nodes = <<>> /\ RebalanceStep)
       => /\ UNCHANGED Frame
          /\ OneMoreEntry
          /\ steps'[Len(steps')].msg = "No pending nodes to rebalance."
          /\ err' = FALSE]_vars

C11_Witness ==
  /\ err = FALSE
  /\ root # NIL
  /\ pending_nodes = <<>>
  /\ steps # <<>>
  /\ steps[Len(steps)].msg = "No pending nodes to rebalance."

HasError(m) == \E i \in 1..Len(check_rb_properties(Heap)) : check_rb_properties(Heap)[i].msg = m

ScenarioDone == err = FALSE /\ keyset = SeqRange(ScenarioKeys) /\ pending_nodes = <<>>

\* C12 as stated: after inserting 10, 20, 30 in color-only mode and draining
\* the queue, the checker reports a black-height mismatch.
C12_ColorOnlyBlackHeightMismatch ==
  (ScenarioDone /\ color_only) => HasError("Black-height mismatch at node {value}.")

\* C12 as the code has it: after inserting 10, 20, 30 in color-only mode and
\* draining the queue, the checker reports exactly one violation, red node 20
\* with a red right child, and no black-height mismatch.
C12_ColorOnlyRedRed ==
  (ScenarioDone /\ color_only)
    => check_rb_properties(Heap) = <<Err("Red node {value} has a red right child.", 20)>>

C12_Witness == ScenarioDone /\ color_only /\ steps = <<>>


\* The node holding key k in the tree, the sentinel when there is none.
NodeOf(k) == IF search_value(Heap, k) = None THEN NIL ELSE search_value(Heap, k)

\* C13: after inserting 10, 20, 30 in that order in full mode and rebalancing,
\* the root is 20 and black, its left child is 10 and its right child is 30,
\* both red, and the checker reports no violations.
C13_FullModeRotates ==
  (ScenarioDone /\ ~color_only)
    => /\ root # NIL /\ value[root] = 20 /\ color[root] = "black"
       /\ left[root] # NIL /\ value[left[root]] = 10 /\ color[left[root]] = "red"
       /\ right[root] # NIL /\ value[right[root]] = 30 /\ color[right[root]] = "red"
       /\ \A c \in {left[root], right[root]} :
            left[c] = NIL /\ right[c] = NIL /\ parent[c] = root
       /\ check_rb_properties(Heap) = <<>>

C13_Witness == ScenarioDone /\ ~color_only /\ value[root] = 20


\* The node holding key k has two real children.
TwoRealChildren(k) ==
  NodeOf(k) # NIL /\ left[NodeOf(k)] # NIL /\ right[NodeOf(k)] # NIL

\* Node y stands after the step where node z stood before it: same parent and
\* side, z's left child, z's right child (y's own when y was that child), and
\* z's color.
TakesPosition(z, y) ==
  /\ parent'[y] = parent[z]
  /\ IF parent[z] = None THEN root' = y
     ELSE /\ (left[parent[z]] = z) = (left'[parent[z]] = y)
          /\ (right[parent[z]] = z) = (right'[parent[z]] = y)
  /\ left'[y] = left[z]
  /\ right'[y] = (IF right[z] = y THEN right[y] ELSE right[z])
  /\ color'[y] = color[z]

\* C14: for a tree built from keys 1..7 in full mode and fully rebalanced, in
\* which node 4 has two real children, delete(4) returns normally, puts the
\* in-order successor 5 at 4's former position (same parent and side, 4's
\* former children, 4's former color), and the checker then reports no
\* violations.
C14_SuccessorTakesPosition ==
  [][(TreeKeys = BuildKeys /\ TwoRealChildren(4) /\ BuildDelete)
       => /\ err' = FALSE
          /\ TakesPosition(NodeOf(4), NodeOf(5))
          /\ Valid']_vars


\* C15: the rebuild driver, run on a sample of N values, never aborts; after
\* every turn of its loop the keys reachable from the root are the keys
\* inserted so far, and it ends with a tree whose key set is the sample and
\* which has N distinct keys.
C15_DriverKeepsSample ==
  [][/\ err' = FALSE
     /\ generating' => TreeKeys' = keyset'
     /\ GenerateFinish
          => /\ TreeKeys' = SeqRange(values)
             /\ Len(InorderKeys') = Len(values)
             /\ StrictlyAscending(InorderKeys')]_vars


RECURSIVE Subtree(_)
Subtree(n) ==
  IF n = NIL THEN {} ELSE {n} \cup Subtree(left[n]) \cup Subtree(right[n])

\* The numbers of black nodes on the paths from n down to the sentinel.
RECURSIVE PathBlacks(_)
PathBlacks(n) ==
  IF n = NIL THEN {IF color[NIL] = "black" THEN 1 ELSE 0}
  ELSE {b + (IF color[n] = "black" THEN 1 ELSE 0) :
          b \in PathBlacks(left[n]) \cup PathBlacks(right[n])}

RootBlack == root = NIL \/ color[root] = "black"

SentinelBlack == color[NIL] = "black"

NoRedRed ==
  \A n \in Subtree(root) :
    color[n] = "red" => color[left[n]] # "red" /\ color[right[n]] # "red"

EqualBlackHeight == Cardinality(PathBlacks(root)) = 1

\* C17: on any tree shape and colouring with intact sentinel linkage the
\* checker returns without aborting, and its list of violations is empty
\* exactly when properties 1-4 hold: root black unless empty, sentinel black,
\* no red node with a red child, equal black-height on all paths.
C17_CheckerExact ==
  /\ err = FALSE
  /\ (check_rb_properties(Heap) = <<>>)
       <=> (RootBlack /\ SentinelBlack /\ NoRedRed /\ EqualBlackHeight)
  /\ steps # <<>>
       => ((steps = <<[msg |-> "RB Check Passed: All Red-Black properties satisfied.",
                       v |-> NoValue]>>)
             <=> (RootBlack /\ SentinelBlack /\ NoRedRed /\ EqualBlackHeight))

\* The checker has run on an invalid tree whose root and sentinel are black.
C17_Witness ==
  /\ steps # <<>> /\ steps[1].msg = "RB Check Failed: {error}"
  /\ RootBlack /\ SentinelBlack /\ NoRedRed /\ ~EqualBlackHeight


HasErrorAt(m, v) ==
  \E i \in 1..Len(check_rb_properties(Heap)) : check_rb_properties(Heap)[i] = Err(m, v)

\* No path below n on the left holds as many black nodes as a path below n
\* on the right.
SubtreesDisagree(n) == PathBlacks(left[n]) \cap PathBlacks(right[n]) = {}

\* C18: the checker's list has an entry for every individual defect: one for
\* each red node with a red child, per side, and one for each node whose left
\* and right subtree black-heights disagree.
C18_EveryDefectReported ==
  \A n \in Subtree(root) :
    /\ (color[n] = "red" /\ color[left[n]] = "red")
         => HasErrorAt("Red node {value} has a red left child.", value[n])
    /\ (color[n] = "red" /\ color[right[n]] = "red")
         => HasErrorAt("Red node {value} has a red right child.", value[n])
    /\ SubtreesDisagree(n)
         => HasErrorAt("Black-height mismatch at node {value}.", value[n])


\* C19: clear() returns normally, sets root to the sentinel and empties the
\* pending queue, and does not clear the log: every entry present before the
\* call is still present, in order, after it.
C19_ClearKeepsLog ==
  [][Clear
       => /\ err' = FALSE
          /\ root' = NIL
          /\ pending_nodes' = <<>>
          /\ Len(steps') >= Len(steps)
          /\ SubSeq(steps', 1, Len(steps)) = steps]_vars

\* A tree with a logged insert has been cleared.
C19_Witness ==
  /\ err = FALSE /\ root = NIL /\ pending_nodes = <<>> /\ keyset = {}
  /\ Len(steps) = 2
  /\ steps[1].msg = "Inserted node {value} (red)."
  /\ steps[2].msg = "Cleared the entire tree."


\* The tree object once the oldest queued node has been taken off the queue.
Dequeued == [Heap EXCEPT !.pending_nodes = Tail(@)]

\* C20: each rebalance-step on a non-empty queue removes exactly one node,
\* the oldest one queued, and runs on it the fixup variant selected by the
\* value the mode flag has at the time of the step (color-only: no link
\* changes), whatever its value was when the node was inserted.
C20_StepUsesCurrentMode ==
  [][(pending_nodes # <<>> /\ RebalanceStep)
       => /\ pending_nodes' = Tail(pending_nodes)
          /\ color_only' = color_only
          /\ color_only
               => /\ Heap' = Settle(insert_rebalance_color_only(
                                      Dequeued, Head(pending_nodes)))
                  /\ UNCHANGED <<left, right, parent, root>>
          /\ ~color_only
               => Heap' = Settle(insert_rebalance_full(
                                   Dequeued, Head(pending_nodes)))]_vars

\* A node queued in full mode, before the switch to color-only mode, has been
\* fixed up after it without the rotation the full fixup makes.
C20_Witness ==
  /\ err = FALSE /\ Len(steps) = 2
  /\ steps[1].msg = "Switched to {mode} rebalancing mode."
  /\ color_only
  /\ steps[2].msg = "Parent red, uncle black -> skipping rotation (color-only)."


\* C21: from any state reachable through the public operations, rebalance-all
\* returns normally with the pending queue empty, and each rebalance-step on a
\* non-empty queue returns normally with the queue one node shorter, the
\* nodes left being the ones that were queued behind its head.
C21_RebalanceAllDrains ==
  [][/\ AppRebalanceAll => (err' = FALSE /\ pending_nodes' = <<>>)
     /\ (pending_nodes # <<>> /\ AppRebalanceStep)
          => (err' = FALSE /\ pending_nodes' = Tail(pending_nodes))]_vars


\* The node delete cuts out of its place for key k: the node holding k, or
\* its in-order successor when it has two real children.
Excised(k) ==
  IF TwoRealChildren(k) THEN _tree_minimum(Heap, right[NodeOf(k)]) ELSE NodeOf(k)

\* The tree object a delete of the node z leaves when _delete_fixup is run,
\* and when it is not.
DeletedWithFixup(z) ==
  Settle(update_log_and_tree(
    _delete_fixup(Log(excise(Heap, z)[1], "Deleted node {value}.", value[z]),
                  excise(Heap, z)[2])))

DeletedWithoutFixup(z) ==
  Settle(update_log_and_tree(
    Log(excise(Heap, z)[1], "Deleted node {value}.", value[z])))

\* C22: delete runs _delete_fixup exactly when the node cut out (the deleted
\* node, or its in-order successor when it has two real children) was black;
\* when it was red and the checker accepted the tree before the call, the
\* checker accepts it after the call, which did nothing but cut the node out.
C22_FixupIffBlackExcised ==
  [][\A k \in FullKeys :
       (NodeOf(k) # NIL /\ DeleteValue(k))
         => IF color[Excised(k)] = "black"
            THEN Heap' = DeletedWithFixup(NodeOf(k))
            ELSE /\ Heap' = DeletedWithoutFixup(NodeOf(k))
                 /\ Valid => (err' = FALSE /\ Valid')]_vars


\* A red node that was still queued has been deleted from a tree the checker
\* accepted: it was cut out itself (it has a sentinel child), it is left in
\* the queue outside the tree, and the checker accepts the tree that remains.
C22_Witness ==
  /\ err = FALSE /\ root # NIL /\ Valid /\ keyset = {1, 2}
  /\ \E i \in 1..Len(pending_nodes) :
       /\ pending_nodes[i] \notin Subtree(root)
       /\ color[pending_nodes[i]] = "red"
       /\ value[pending_nodes[i]] = 3
       /\ left[pending_nodes[i]] = NIL /\ right[pending_nodes[i]] = NIL



\* C23: a rebalance-step taken in color-only mode leaves the shape of the tree
\* alone: the root reference is the same, and every node still held by the
\* tree or the queue has the left, right and parent links it had before.
C23_ColorOnlyKeepsShape ==
  [][(color_only /\ AppRebalanceStep)
       => /\ root' = root
          /\ \A n \in Live(Heap') :
               left'[n] = left[n] /\ right'[n] = right[n] /\ parent'[n] = parent[n]]_vars

\* The chain 1, 2, 3 built by inserts in color-only mode has been stepped
\* through to an empty queue: 3 is a red child of the red 2, where the full
\* fixup would have rotated 2 to the root.
C23_Witness ==
  /\ err = FALSE /\ color_only /\ pending_nodes = <<>>
  /\ root # NIL /\ value[root] = 1 /\ color[root] = "black" /\ left[root] = NIL
  /\ right[root] # NIL /\ value[right[root]] = 2 /\ color[right[root]] = "red"
  /\ right[right[root]] # NIL /\ value[right[right[root]]] = 3
  /\ color[right[right[root]]] = "red"



\* The tree object of the driver's loop turn once the next value has been
\* inserted, and once balance_binary_tree has then rebuilt it.
Inserted == insert(Heap, Head(sorted_values))

Rebuilt == balance_binary_tree(Inserted)

\* The nodes of the subtree at n in the tree object h.
RECURSIVE NodesUnder(_, _)
NodesUnder(h, n) ==
  IF n = NIL \/ n = None THEN {}
  ELSE {n} \cup NodesUnder(h, h.left[n]) \cup NodesUnder(h, h.right[n])

\* Every node below the root of h has at its right as many nodes as at its
\* left, or one more.
BalancedShape(h) ==
  \A n \in NodesUnder(h, h.root) :
    Cardinality(NodesUnder(h, h.right[n]))
      - Cardinality(NodesUnder(h, h.left[n])) \in {0, 1}

\* Every child link below the root of h is a node that points back to its
\* parent, or the sentinel.
LinkedShape(h) ==
  \A n \in NodesUnder(h, h.root) :
    \A c \in {h.left[n], h.right[n]} :
      c # None /\ (c # NIL => h.parent[c] = n)

\* C24: in every turn of the driver's loop, the rebuild returns a tree with
\* the in-order key sequence of the tree it was given, in which every node
\* has as many nodes at its right as at its left or one more, every missing
\* child is the sentinel, every real child points back to its parent, and the
\* root has no parent.
C24_RebuildBalanced ==
  (err = FALSE /\ generating /\ sorted_values # <<>>)
    => /\ Rebuilt.err = FALSE
       /\ inorder(Rebuilt, Rebuilt.root) = inorder(Inserted, Inserted.root)
       /\ Rebuilt.root \notin {NIL, None}
       /\ Rebuilt.parent[Rebuilt.root] = None
       /\ BalancedShape(Rebuilt)
       /\ LinkedShape(Rebuilt)

\* A loop turn of the driver rebuilds a chain of three keys, its root having
\* two nodes at its right and none at its left, into a root with two children.
C24_Witness ==
  /\ err = FALSE /\ generating /\ sorted_values # <<>>
  /\ Cardinality(NodesUnder(Inserted, Inserted.right[Inserted.root])) = 2
  /\ Inserted.left[Inserted.root] = NIL
  /\ Rebuilt.err = FALSE
  /\ Rebuilt.left[Rebuilt.root] \notin {NIL, None}
  /\ Rebuilt.right[Rebuilt.root] \notin {NIL, None}



\* The nodes that the child links lead to from the nodes of S, S included.
RECURSIVE ReachFrom(_)
ReachFrom(S) ==
  LET T == (S \cup {left[n] : n \in S} \cup {right[n] : n \in S}) \ {NIL, None}
  IN IF T = S THEN S ELSE ReachFrom(T)

\* The nodes of the tree: those reachable from root, the sentinel excluded.
TreeNodes == ReachFrom({root} \ {NIL, None})

\* C25: in every state between operations, the one an aborted operation leaves
\* included, the root has no parent, every child link of a node of the tree
\* is a node or the sentinel, and every child that is a node points back to
\* the node that holds it.
C25_WellFormed ==
  /\ root # None
  /\ parent[root] = None
  /\ \A n \in TreeNodes :
       \A c \in {left[n], right[n]} :
         c # None /\ (c # NIL => parent[c] = n)



\* C26: every node in the pending queue is a node of the current tree.
C26_QueuedNodesInTree ==
  \A i \in 1..Len(pending_nodes) : pending_nodes[i] \in TreeNodes



\* The nodes of the subtree that the child link c leads to.
Below(c) == ReachFrom({c} \ {NIL, None})

\* C27: in every reachable state, every key in the left subtree of a node of
\* the tree is smaller than the node's key and every key in its right subtree
\* is larger.
C27_SearchTreeOrder ==
  \A n \in TreeNodes :
    /\ \A m \in Below(left[n]) : value[m] < value[n]
    /\ \A m \in Below(right[n]) : value[m] > value[n]



\* C28: in insert-only histories, in either mode and with the mode switched at
\* any time, between operations the root is black and every path from the
\* root to the sentinel holds the same number of black nodes, also while nodes
\* are pending.
C28_InsertOnlyBlackHeight ==
  err = FALSE /\ RootBlack /\ EqualBlackHeight


\* C28 as amended: in insert-only histories, in either mode and with the mode
\* switched at any time, between operations no operation has aborted, the
\* root is black and the sentinel is black, also while nodes are pending.
C28_InsertOnlyRootBlack ==
  err = FALSE /\ RootBlack /\ SentinelBlack

\* The keys 1, 3, 2, 4, 5 have been inserted and the queue drained in
\* color-only mode: the root 1 is black with nothing at its left, and at its
\* right the red 3 holds the black 2 and the black 4, which holds the red 5.
C28_Witness ==
  /\ err = FALSE /\ color_only /\ pending_nodes = <<>>
  /\ root # NIL /\ value[root] = 1 /\ RootBlack /\ SentinelBlack
  /\ left[root] = NIL
  /\ value[right[root]] = 3 /\ color[right[root]] = "red"
  /\ value[left[right[root]]] = 2 /\ color[left[right[root]]] = "black"
  /\ value[right[right[root]]] = 4 /\ color[right[right[root]]] = "black"
  /\ value[right[right[right[root]]]] = 5
  /\ color[right[right[right[root]]]] = "red"
  /\ ~EqualBlackHeight
====
